---- MODULE Spec2Model ----
(***************************************************************************)
(* The transformation-cache engine of llama_index/ingestion/pipeline.py:   *)
(* the fingerprint of "this transformation applied to these records", the  *)
(* two executors run_transformations / arun_transformations that thread a  *)
(* batch through a list of transformations while consulting a cache, and   *)
(* IngestionPipeline.run / arun that merge the inputs, call the executor   *)
(* and forward the embedded records to the vector store.                   *)
(*                                                                         *)
(* Text is a sequence of one-character strings.  An optional value is a    *)
(* sequence of length at most one: << >> is Python's None, <<v>> is v.     *)
(***************************************************************************)
EXTENDS Integers, Sequences, FiniteSets, TLC

\* ------------------------------------------------------------------ text

LowerCh == {"a", "b", "c", "d", "e", "f", "g", "h", "i", "j", "k", "l", "m",
            "n", "o", "p", "q", "r", "s", "t", "u", "v", "w", "x", "y", "z"}
UpperCh == {"A", "B", "C", "D", "E", "F", "G", "H", "I", "J", "K", "L", "M",
            "N", "O", "P", "Q", "R", "S", "T", "U", "V", "W", "X", "Y", "Z"}
DigitCh == {"0", "1", "2", "3", "4", "5", "6", "7", "8", "9"}

\* str.upper() on one character, for the letters the model's texts use.
UpperOf(c) ==
    CASE c = "a" -> "A" [] c = "b" -> "B" [] c = "c" -> "C"
      [] c = "x" -> "X" [] c = "y" -> "Y" [] OTHER -> c

\* The characters of the model's texts: code points 1 to 255, Latin1[n] being
\* chr(n).  A TLA+ string holds no other character, and not the backquote
\* chr(96), whose place holds the empty string.
Latin1 == <<
    "", "", "", "", "", "", "",
    "", "\t", "\n", "", "\f", "\r", "", "",
    "", "", "", "", "", "", "", "",
    "", "", "", "", "", "", "", "",
    " ", "!", "\"", "#", "$", "%", "&", "'",
    "(", ")", "*", "+", ",", "-", ".", "/",
    "0", "1", "2", "3", "4", "5", "6", "7",
    "8", "9", ":", ";", "<", "=", ">", "?",
    "@", "A", "B", "C", "D", "E", "F", "G",
    "H", "I", "J", "K", "L", "M", "N", "O",
    "P", "Q", "R", "S", "T", "U", "V", "W",
    "X", "Y", "Z", "[", "\\", "]", "^", "_",
    "", "a", "b", "c", "d", "e", "f", "g",
    "h", "i", "j", "k", "l", "m", "n", "o",
    "p", "q", "r", "s", "t", "u", "v", "w",
    "x", "y", "z", "{", "|", "}", "~", "",
    "", "", "", "", "", "", "", "",
    "", "", "", "", "", "", "", "",
    "", "", "", "", "", "", "", "",
    "", "", "", "", "", "", "", "",
    " ", "¡", "¢", "£", "¤", "¥", "¦", "§",
    "¨", "©", "ª", "«", "¬", "­", "®", "¯",
    "°", "±", "²", "³", "´", "µ", "¶", "·",
    "¸", "¹", "º", "»", "¼", "½", "¾", "¿",
    "À", "Á", "Â", "Ã", "Ä", "Å", "Æ", "Ç",
    "È", "É", "Ê", "Ë", "Ì", "Í", "Î", "Ï",
    "Ð", "Ñ", "Ò", "Ó", "Ô", "Õ", "Ö", "×",
    "Ø", "Ù", "Ú", "Û", "Ü", "Ý", "Þ", "ß",
    "à", "á", "â", "ã", "ä", "å", "æ", "ç",
    "è", "é", "ê", "ë", "ì", "í", "î", "ï",
    "ð", "ñ", "ò", "ó", "ô", "õ", "ö", "÷",
    "ø", "ù", "ú", "û", "ü", "ý", "þ", "ÿ" >>

\* ord(c)
Code(c) == CHOOSE n \in 1..Len(Latin1) : Latin1[n] = c

\* \w beyond ASCII, \s, and the characters str.isprintable() rejects, by code.
WordCodes == {170} \cup (178..179) \cup {181} \cup (185..186) \cup (188..190) \cup (192..214) \cup (216..246) \cup (248..255)
SpaceCodes == (9..13) \cup (28..32) \cup {133} \cup {160}
Unprintable == (1..31) \cup (127..160) \cup {173}

None == << >>
Some(v) == << v >>

\* "".join(parts)
RECURSIVE Join(_)
Join(parts) ==
    IF parts = << >> THEN << >> ELSE Head(parts) \o Join(Tail(parts))

\* ------------------------------------------------------- remove_unstable_values

\* [\w\s_\. ]: word characters, whitespace, underscore, dot, space, as a str
\* pattern matches them (Unicode classes).
WordCh == LowerCh \cup UpperCh \cup DigitCh \cup {"_"} \cup {Latin1[n] : n \in WordCodes}
SpaceCh == {Latin1[n] : n \in SpaceCodes}
InClass1(c) == c \in WordCh \cup SpaceCh \cup {"_", ".", " "}
\* [a-z0-9]
InClass2(c) == c \in LowerCh \cup DigitCh

AtHex == <<" ", "a", "t", " ", "0", "x">>

\* The index of the first character after position i that is outside class 1
\* (Len(s) + 1 when there is none): no match of the pattern reaches past it.
RECURSIVE Class1End(_, _)
Class1End(s, i) ==
    IF i > Len(s) \/ ~InClass1(s[i]) THEN i ELSE Class1End(s, i + 1)

\* The index of the ">" closing a match of  <[\w\s_\. ]+ at 0x[a-z0-9]+>  that
\* starts at s[i], or 0 when no match starts there.  Every character of a match
\* between "<" and ">" is in class 1, so a match ends at the first character
\* outside class 1, which must be ">"; the pattern then needs a place j where
\* " at 0x" starts, with at least one character before it and at least one
\* character of class 2, and nothing else, after it.
MatchEnd(s, i) ==
    IF s[i] # "<" THEN 0
    ELSE LET e == Class1End(s, i + 1)
         IN  IF /\ e <= Len(s)
                /\ s[e] = ">"
                /\ \E j \in (i + 2)..(e - 7) :
                      /\ SubSeq(s, j, j + 5) = AtHex
                      /\ \A m \in (j + 6)..(e - 1) : InClass2(s[m])
             THEN e
             ELSE 0

\* re.sub(pattern, "", s): leftmost non-overlapping matches are deleted.
RECURSIVE SubFrom(_, _)
SubFrom(s, i) ==
    IF i > Len(s) THEN << >>
    ELSE IF MatchEnd(s, i) # 0 THEN SubFrom(s, MatchEnd(s, i) + 1)
    ELSE <<s[i]>> \o SubFrom(s, i + 1)

remove_unstable_values(s) == SubFrom(s, 1)

\* ------------------------------------------------------------------ records

\* A record (BaseNode): an id, a text, a metadata mapping (a sequence of
\* <<key, value>> pairs in insertion order) and an optional embedding.
Node(id, text, metadata, embedding) ==
    [id |-> id, text |-> text, metadata |-> metadata, embedding |-> embedding]

\* "\n".join(f"{key}: {value}") over the metadata, in order.
RECURSIVE MetadataStr(_)
MetadataStr(md) ==
    IF md = << >> THEN << >>
    ELSE Head(md)[1] \o <<":", " ">> \o Head(md)[2]
         \o (IF Len(md) > 1 THEN <<"\n">> ELSE << >>) \o MetadataStr(Tail(md))

\* node.get_content(metadata_mode=MetadataMode.ALL): the metadata, a blank
\* line, the text; the text alone when there is no metadata.
get_content(node) ==
    IF node.metadata = << >> THEN node.text
    ELSE MetadataStr(node.metadata) \o <<"\n", "\n">> \o node.text

\* ---------------------------------------------------------- transformations

\* The transformations of the model: three components implementing the
\* transformation contract.  Each has a configuration (to_dict) and an
\* application batch -> batch that is a pure function of the batch, the
\* configuration and the extra options.
\*   Upper   upper-cases every text
\*   Suffix  appends the extra option "suffix" to every text, and raises when
\*           a text has already reached the length limit
\*   Embed   sets the embedding of every record that has none
Transforms == {"Upper", "Suffix", "Embed"}

\* The length limit of Suffix.
SuffixLimit == 3

\* Components whose configuration holds a callable, printed by str(dict) as the
\* callable's repr with its address in this process, and the same components
\* as another process run prints them (another address):
\*   Embed / EmbedRerun   a named function,  <f at 0x1> / <f at 0x2>
\*   Hook / HookRerun     a lambda,  <function <lambda> at 0x1> / ... at 0x2>
\* Hook applies its callable (str.upper) to every text.
Reruns == {"EmbedRerun", "Hook", "HookRerun"}

\* object.__repr__ and function.__repr__:  <description at 0xADDRESS>
Reference(description, address) ==
    <<"<">> \o description \o <<" ", "a", "t", " ", "0", "x">> \o address \o <<">">>

LambdaName == <<"f", "u", "n", "c", "t", "i", "o", "n", " ",
                "<", "l", "a", "m", "b", "d", "a", ">">>

\* One item of a configuration: the value is a str (printed in quotes by
\* str(dict)) or another object (printed by its repr, unquoted).
Item(key, val, isStr) == [key |-> key, val |-> val, isStr |-> isStr]

\* transformation.to_dict()
to_dict(t) ==
    CASE t = "Upper"  -> << Item(<<"n">>, <<"U">>, TRUE) >>
      [] t = "Suffix" -> << Item(<<"n">>, <<"S">>, TRUE) >>
      [] t = "Embed"  -> << Item(<<"n">>, <<"E">>, TRUE),
                            Item(<<"f">>, <<"<", "f", " ", "a", "t", " ", "0", "x", "1", ">">>, FALSE) >>
      [] t = "EmbedRerun" -> << Item(<<"n">>, <<"E">>, TRUE),
                                Item(<<"f">>, Reference(<<"f">>, <<"2">>), FALSE) >>
      [] t = "Hook"       -> << Item(<<"n">>, <<"H">>, TRUE),
                                Item(<<"f">>, Reference(LambdaName, <<"1">>), FALSE) >>
      [] t = "HookRerun"  -> << Item(<<"n">>, <<"H">>, TRUE),
                                Item(<<"f">>, Reference(LambdaName, <<"2">>), FALSE) >>

\* repr(str): in single quotes, in double quotes when the text holds a single
\* quote and no double quote; backslash, the quote, tab, newline and return are
\* escaped, every other unprintable character is written \xNN.
HexDigits == <<"0", "1", "2", "3", "4", "5", "6", "7", "8", "9",
               "a", "b", "c", "d", "e", "f">>

UnprintableCh == {Latin1[n] : n \in Unprintable}

Escaped(c, quote) ==
    CASE c = "\\" -> <<"\\", "\\">>
      [] c = quote -> <<"\\", c>>
      [] c = "\t" -> <<"\\", "t">>
      [] c = "\n" -> <<"\\", "n">>
      [] c = "\r" -> <<"\\", "r">>
      [] OTHER -> IF c \in UnprintableCh
                  THEN <<"\\", "x", HexDigits[(Code(c) \div 16) + 1],
                         HexDigits[(Code(c) % 16) + 1]>>
                  ELSE <<c>>

StrRepr(text) ==
    LET Holds(c) == \E k \in 1..Len(text) : text[k] = c
        quote == IF Holds("'") /\ ~Holds("\"") THEN "\"" ELSE "'"
    IN  <<quote>> \o Join([k \in 1..Len(text) |-> Escaped(text[k], quote)]) \o <<quote>>

\* str(dict): {'key': 'value', 'key': <repr>}
RECURSIVE ItemsStr(_)
ItemsStr(d) ==
    IF d = << >> THEN << >>
    ELSE StrRepr(Head(d).key) \o <<":", " ">>
         \o (IF Head(d).isStr THEN StrRepr(Head(d).val) ELSE Head(d).val)
         \o (IF Len(d) > 1 THEN <<",", " ">> ELSE << >>) \o ItemsStr(Tail(d))

DictStr(d) == <<"{">> \o ItemsStr(d) \o <<"}">>

MapText(nodes, F(_)) ==
    [k \in 1..Len(nodes) |-> [nodes[k] EXCEPT !.text = F(nodes[k].text)]]

UpperText(text) == [k \in 1..Len(text) |-> UpperOf(text[k])]

\* transform(nodes, **kwargs) and transform.acall(nodes, **kwargs): the
\* result, or raised = TRUE when the application raises.
Result(nodes) == [raised |-> FALSE, nodes |-> nodes]
Raise(nodes) == [raised |-> TRUE, nodes |-> nodes]

call(t, nodes, kwargs) ==
    CASE t \in {"Upper", "Hook", "HookRerun"} -> Result(MapText(nodes, UpperText))
      [] t = "Suffix" -> IF \E k \in 1..Len(nodes) : Len(nodes[k].text) >= SuffixLimit
                         THEN Raise(nodes)
                         ELSE Result([k \in 1..Len(nodes) |->
                                 [nodes[k] EXCEPT !.text = @ \o <<kwargs.suffix>>]])
      [] t \in {"Embed", "EmbedRerun"} -> Result([k \in 1..Len(nodes) |->
                            IF nodes[k].embedding = None
                            THEN [nodes[k] EXCEPT !.embedding = Some(Len(nodes[k].text))]
                            ELSE nodes[k]])

\* The blocking and the suspend-capable application have the same effect.
acall(t, nodes, kwargs) == call(t, nodes, kwargs)

\* ------------------------------------------------------------- fingerprint

NodesStr(nodes) == Join([k \in 1..Len(nodes) |-> get_content(nodes[k])])

\* What is hashed: the records' contents, then the cleaned configuration.
HashInput(nodes, t) == NodesStr(nodes) \o remove_unstable_values(DictStr(to_dict(t)))

\* sha256(...).hexdigest(): an ideal digest, one digest per input (collisions
\* of SHA-256 itself are outside the model), tagged so that a digest is not
\* the text it was computed from.
sha256(s) == <<"sha256">> \o s

get_transformation_hash(nodes, t) == sha256(HashInput(nodes, t))

\* ------------------------------------------------------------------- cache

\* IngestionCache: fingerprint -> batch, partitioned by collection; a call
\* without a collection uses the cache's default collection.
DefaultCollection == <<"l", "l", "a", "m", "a", "_", "c", "a", "c", "h", "e">>
CollectionOf(collection) ==
    IF collection = None THEN DefaultCollection ELSE collection[1]

EmptyCache == [k \in {} |-> << >>]

\* cache.get(key, collection=collection): None or the stored batch.
CacheGet(c, key, collection) ==
    IF <<CollectionOf(collection), key>> \in DOMAIN c
    THEN Some(c[<<CollectionOf(collection), key>>])
    ELSE None

\* cache.put(key, nodes, collection=collection): overwrites.
CachePut(c, key, nodes, collection) ==
    [k \in DOMAIN c \cup {<<CollectionOf(collection), key>>} |->
        IF k = <<CollectionOf(collection), key>> THEN nodes ELSE c[k]]

\* ---------------------------------------------------- the executor, as a whole

\* run_transformations(nodes, transformations, cache=..., cache_collection=...,
\* **kwargs) from step k on, with the cache backend reachable: the batch
\* returned (or the batch at the step that raised), the cache it leaves and the
\* steps whose transformation it applied.  cacheOn is "cache is not None".
RECURSIVE RunFrom(_, _, _, _, _, _, _, _)
RunFrom(k, nodes, transformations, cacheOn, collection, kwargs, c, applied) ==
    IF k > Len(transformations)
    THEN [nodes |-> nodes, cache |-> c, raised |-> FALSE, applied |-> applied]
    ELSE LET transform == transformations[k]
             hash == get_transformation_hash(nodes, transform)
             cached_nodes == IF cacheOn THEN CacheGet(c, hash, collection) ELSE None
             out == call(transform, nodes, kwargs)
         IN  IF cacheOn /\ cached_nodes # None
             THEN RunFrom(k + 1, cached_nodes[1], transformations, cacheOn,
                          collection, kwargs, c, applied)
             ELSE IF out.raised
             THEN [nodes |-> nodes, cache |-> c, raised |-> TRUE,
                   applied |-> Append(applied, k)]
             ELSE RunFrom(k + 1, out.nodes, transformations, cacheOn, collection, kwargs,
                          IF cacheOn THEN CachePut(c, hash, out.nodes, collection) ELSE c,
                          Append(applied, k))

run_transformations(nodes, transformations, cacheOn, collection, kwargs, c) ==
    RunFrom(1, nodes, transformations, cacheOn, collection, kwargs, c, << >>)

\* ------------------------------------------------------------------ inputs

MaxSteps == 2
MaxBatch == 2
MaxDocuments == 3

RECURSIVE SeqsUpTo(_, _)
SeqsUpTo(S, n) ==
    IF n = 0 THEN {<< >>}
    ELSE SeqsUpTo(S, n - 1) \cup
         {Append(q, x) : q \in {p \in SeqsUpTo(S, n - 1) : Len(p) = n - 1}, x \in S}

\* Two batches with the same concatenated content: one record "ab", and the
\* records "a" and "b".
InputBatches == { << Node(1, <<"a", "b">>, << >>, None) >>,
                  << Node(1, <<"a">>, << >>, None), Node(2, <<"b">>, << >>, None) >> }
ExecTransforms == {"Upper", "Suffix"}
TransformLists == SeqsUpTo(ExecTransforms, MaxSteps)
Extras == {[suffix |-> "x"], [suffix |-> "y"]}
Collections == {None, Some(<<"c">>)}
Modes == {"sync", "async"}
Invocations == {1, 2}

\* ------------------------------------------------------------------- state

VARIABLES
    pipeline,  \* the IngestionPipeline: transformations, documents, reader,
               \* vector_store (present or not), disable_cache
    cache,     \* its IngestionCache: <<collection, fingerprint>> -> batch
    inv,       \* the invocations: arguments, position, current batch, log
    turn,      \* the invocation that holds the thread of control, 0 when none does
    store,     \* the calls of vector_store.add / async_add, in order
    fp         \* two (batch, transformation) pairs and their fingerprints

vars == <<pipeline, cache, inv, turn, store, fp>>

Pipeline(transformations, documents, reader, vector_store, disable_cache) ==
    [transformations |-> transformations, documents |-> documents, reader |-> reader,
     vector_store |-> vector_store, disable_cache |-> disable_cache]

Idle ==
    [pc |-> "idle", via |-> "direct", mode |-> "sync", documents |-> None,
     argNodes |-> None, input |-> << >>, transformations |-> << >>,
     cacheOn |-> FALSE, collection |-> None, kwargs |-> [suffix |-> "x"],
     nodes |-> << >>, step |-> 0, hash |-> << >>, err |-> "", log |-> << >>,
     alone |-> TRUE, cache0 |-> EmptyCache, cacheEnd |-> EmptyCache, ret |-> None]

NoFingerprints ==
    [nodes1 |-> << >>, t1 |-> "Upper", nodes2 |-> << >>, t2 |-> "Upper",
     state |-> "unused", hash1 |-> << >>, hash1again |-> << >>, hash2 |-> << >>]

\* The log of an invocation: what it did, in order.  "get" and "apply" carry the
\* batch the step started from, "hit" the cached batch taken over, "ret" the
\* batch the application returned, "put" the batch stored ("putraise" when the
\* put raised and stored nothing).
Event(op, step, key, nodes) == [op |-> op, step |-> step, key |-> key, nodes |-> nodes]

\* The executor call of an invocation is over (or never began).
Finished(s) == s.pc \in {"idle", "returned", "raised", "adding", "done"}

\* -------------------------------------------------------- the executor, by steps

\* for transform in transformations: the transformation of the current step.
StageAt(s) == s.transformations[s.step]

\* if cache is not None
UsesCacheAlways(s) == TRUE
UsesCache(s) == s.cacheOn

\* nodes = cached_nodes
HitBatch(nodes, cached_nodes) == cached_nodes[1]

\* cache.put(hash, ...): the key is the fingerprint computed before the step.
PutKeyAfter(s) == get_transformation_hash(s.nodes, StageAt(s))
PutKey(s) == s.hash

\* cache.put(..., collection=cache_collection): the caller's collection.
PutCollectionDefault(s) == None
PutCollection(s) == s.collection

\* A caller invokes run_transformations (mode "sync") or arun_transformations
\* (mode "async"); the invocation runs on the thread until it suspends or ends.
\* (in_place=False copies the list, which changes no value.)
Enter(i, via, mode, documents, argNodes, nodes, transformations, cacheOn, collection, kwargs) ==
    /\ inv[i].pc = "idle"
    /\ \A j \in Invocations : j < i => inv[j].pc # "idle"
    /\ turn = 0
    /\ inv' = [j \in Invocations |->
                 IF j = i
                 THEN [Idle EXCEPT !.pc = "loop", !.via = via, !.mode = mode,
                                   !.documents = documents, !.argNodes = argNodes,
                                   !.input = nodes,
                                   !.transformations = transformations,
                                   !.cacheOn = cacheOn, !.collection = collection,
                                   !.kwargs = kwargs, !.nodes = nodes, !.step = 1,
                                   !.alone = \A m \in Invocations \ {i} : Finished(inv[m]),
                                   !.cache0 = cache]
                 ELSE IF Finished(inv[j]) THEN inv[j]
                 ELSE [inv[j] EXCEPT !.alone = FALSE]]
    /\ turn' = i
    /\ UNCHANGED <<pipeline, cache, store, fp>>

Call(i, mode, nodes, cacheOn, collection, kwargs) ==
    /\ cacheOn \/ collection = None
    /\ Enter(i, "direct", mode, None, None, nodes, pipeline.transformations,
             cacheOn, collection, kwargs)

\* for transform in transformations: ... return nodes
\* A direct caller gets the batch; IngestionPipeline.run / arun goes on.
Return(i) ==
    /\ turn = i
    /\ inv[i].pc = "loop"
    /\ inv[i].step > Len(inv[i].transformations)
    /\ inv' = [inv EXCEPT ![i].pc = "returned", ![i].cacheEnd = cache]
    /\ turn' = IF inv[i].via = "direct" THEN 0 ELSE i
    /\ UNCHANGED <<pipeline, cache, store, fp>>

\* hash = get_transformation_hash(nodes, transform)
\* cached_nodes = cache.get(hash, collection=cache_collection)
\* if cached_nodes is not None: nodes = cached_nodes
Lookup(i) ==
    LET s == inv[i]
        hash == get_transformation_hash(s.nodes, StageAt(s))
        cached_nodes == CacheGet(cache, hash, s.collection)
        log == Append(s.log, Event("get", s.step, hash, s.nodes))
    IN  /\ turn = i
        /\ s.pc = "loop"
        /\ s.step <= Len(s.transformations)
        /\ UsesCache(s)
        /\ UNCHANGED <<pipeline, cache, store, fp>>
        /\ \/ /\ cached_nodes # None
              /\ inv' = [inv EXCEPT ![i].nodes = HitBatch(s.nodes, cached_nodes),
                                    ![i].hash = hash, ![i].step = s.step + 1,
                                    ![i].log = Append(log,
                                        Event("hit", s.step, hash,
                                              HitBatch(s.nodes, cached_nodes)))]
              /\ UNCHANGED turn
           \/ /\ cached_nodes = None
              /\ inv' = [inv EXCEPT ![i].pc = "apply", ![i].hash = hash, ![i].log = log]
              /\ UNCHANGED turn
           \/ \* the backend is unreachable: cache.get raises, nothing catches it
              /\ inv' = [inv EXCEPT ![i].pc = "raised", ![i].err = "CacheUnavailable",
                                    ![i].hash = hash, ![i].log = log,
                                    ![i].cacheEnd = cache]
              /\ turn' = 0

AtApply(s) ==
    \/ s.pc = "apply"
    \/ s.pc = "loop" /\ s.step <= Len(s.transformations) /\ ~UsesCache(s)

\* The invocation after its transformation returned out (or raised): the error
\* goes to the caller, the batch returned becomes the current batch.
AppliedSwallow(s, out, c) ==
    LET log == Append(s.log, Event("ret", s.step, s.hash, out.nodes))
    IN  IF UsesCache(s)
        THEN [s EXCEPT !.pc = "put", !.nodes = out.nodes, !.log = log]
        ELSE [s EXCEPT !.pc = "loop", !.nodes = out.nodes, !.step = s.step + 1,
                       !.log = log]
Applied(s, out, c) ==
    IF out.raised
    THEN [s EXCEPT !.pc = "raised", !.err = "TransformError", !.cacheEnd = c]
    ELSE LET log == Append(s.log, Event("ret", s.step, s.hash, out.nodes))
         IN  IF UsesCache(s)
             THEN [s EXCEPT !.pc = "put", !.nodes = out.nodes, !.log = log]
             ELSE [s EXCEPT !.pc = "loop", !.nodes = out.nodes, !.step = s.step + 1,
                            !.log = log]

\* nodes = transform(nodes, **kwargs)
Apply(i) ==
    LET s == inv[i]
        out == call(StageAt(s), s.nodes, s.kwargs)
        logged == [s EXCEPT !.log = Append(s.log, Event("apply", s.step, s.hash, s.nodes))]
    IN  /\ turn = i
        /\ s.mode = "sync"
        /\ AtApply(s)
        /\ inv' = [inv EXCEPT ![i] = Applied(logged, out, cache)]
        /\ turn' = IF inv'[i].pc = "raised" THEN 0 ELSE i
        /\ UNCHANGED <<pipeline, cache, store, fp>>

\* nodes = await transform.acall(nodes, **kwargs): the call starts and the
\* invocation is suspended; other invocations may run.
Await(i) ==
    LET s == inv[i]
    IN  /\ turn = i
        /\ s.mode = "async"
        /\ AtApply(s)
        /\ inv' = [inv EXCEPT ![i].pc = "awaiting",
                              ![i].log = Append(s.log, Event("apply", s.step, s.hash, s.nodes))]
        /\ turn' = 0
        /\ UNCHANGED <<pipeline, cache, store, fp>>

\* The awaited call resolves and the invocation goes on.
ResumeNoPut(i) ==
    LET s == inv[i]
        out == acall(StageAt(s), s.nodes, s.kwargs)
    IN  /\ turn = 0
        /\ s.pc = "awaiting"
        /\ inv' = [inv EXCEPT ![i] = [Applied(s, out, cache) EXCEPT
                                         !.pc = IF @ = "put" THEN "loop" ELSE @,
                                         !.step = IF out.raised \/ ~s.cacheOn
                                                  THEN @ ELSE @ + 1]]
        /\ turn' = IF inv'[i].pc = "raised" THEN 0 ELSE i
        /\ UNCHANGED <<pipeline, cache, store, fp>>
Resume(i) ==
    LET s == inv[i]
        out == acall(StageAt(s), s.nodes, s.kwargs)
    IN  /\ turn = 0
        /\ s.pc = "awaiting"
        /\ inv' = [inv EXCEPT ![i] = Applied(s, out, cache)]
        /\ turn' = IF inv'[i].pc = "raised" THEN 0 ELSE i
        /\ UNCHANGED <<pipeline, cache, store, fp>>

\* cache.put(hash, nodes, collection=cache_collection)
Put(i) ==
    LET s == inv[i]
        log == Append(s.log, Event("put", s.step, PutKey(s), s.nodes))
    IN  /\ turn = i
        /\ s.pc = "put"
        /\ \/ /\ cache' = CachePut(cache, PutKey(s), s.nodes, PutCollection(s))
              /\ inv' = [inv EXCEPT ![i].pc = "loop", ![i].step = s.step + 1, ![i].log = log]
              /\ UNCHANGED <<pipeline, turn, store, fp>>
           \/ \* the backend is unreachable: cache.put raises, nothing catches it
              /\ inv' = [inv EXCEPT ![i].pc = "raised", ![i].err = "CacheUnavailable",
                                    ![i].log = Append(s.log, [log[Len(log)] EXCEPT
                                                                !.op = "putraise"]),
                                    ![i].cacheEnd = cache]
              /\ turn' = 0
              /\ UNCHANGED <<pipeline, cache, store, fp>>

Step ==
    \/ \E i \in Invocations : Return(i)
    \/ \E i \in Invocations : Lookup(i)
    \/ \E i \in Invocations : Apply(i)
    \/ \E i \in Invocations : Await(i)
    \/ \E i \in Invocations : Resume(i)
    \/ \E i \in Invocations : Put(i)

\* ------------------------------------------- Spec: calls of the two executors

\* One pipeline's transformations and cache; each caller passes a batch, the
\* cache or None, a collection and extra options to either executor.
Init ==
    /\ pipeline \in {Pipeline(ts, None, None, FALSE, FALSE) : ts \in TransformLists}
    /\ cache = EmptyCache
    /\ inv = [i \in Invocations |-> Idle]
    /\ turn = 0
    /\ store = << >>
    /\ fp = NoFingerprints

Next ==
    \/ \E i \in Invocations, mode \in Modes, nodes \in InputBatches,
          cacheOn \in BOOLEAN, collection \in Collections, kwargs \in Extras :
          Call(i, mode, nodes, cacheOn, collection, kwargs)
    \/ Step

Spec == Init /\ [][Next]_vars

\* ------------------------ SpecPipeline: IngestionPipeline.run and arun

\* The pipeline's sources and the caller's: one document passed to the call,
\* one record passed to the call that already carries an embedding, one
\* pre-configured document, one document the reader returns.
ArgDocuments == << Node(1, <<"a">>, << >>, None) >>
ArgNodes == << Node(2, <<"b">>, << >>, Some(7)) >>
OwnDocuments == << Node(3, <<"c">>, << >>, None) >>
ReaderOutput == << Node(4, <<"a", "b">>, << >>, None) >>
PipelineLists == SeqsUpTo({"Upper", "Embed"}, MaxSteps)
ShowProgress == [suffix |-> "x"]

InitPipeline ==
    /\ pipeline \in { Pipeline(ts, documents, reader, vector_store, disable_cache) :
                        ts \in PipelineLists,
                        documents \in {None, Some(OwnDocuments)},
                        reader \in {None, Some(ReaderOutput)},
                        vector_store \in BOOLEAN,
                        disable_cache \in BOOLEAN }
    /\ cache = EmptyCache
    /\ inv = [i \in Invocations |-> Idle]
    /\ turn = 0
    /\ store = << >>
    /\ fp = NoFingerprints

\* input_nodes = []; input_nodes += documents, nodes, self.documents,
\* self.reader.read(), each when it is not None.
Part(optional) == IF optional = None THEN << >> ELSE optional[1]
MergedNodesFirst(documents, nodes) ==
    Part(nodes) \o Part(documents) \o Part(pipeline.documents) \o Part(pipeline.reader)
Merged(documents, nodes) ==
    Part(documents) \o Part(nodes) \o Part(pipeline.documents) \o Part(pipeline.reader)

\* IngestionPipeline.run (mode "sync") and arun (mode "async") up to the call
\* of the executor: cache=self.cache if not self.disable_cache else None.
Run(i, mode, documents, nodes, cache_collection, kwargs) ==
    Enter(i, "pipeline", mode, documents, nodes, Merged(documents, nodes),
          pipeline.transformations, ~pipeline.disable_cache, cache_collection, kwargs)

\* IngestionPipeline.register: input_nodes is self.documents itself when that is
\* a non-empty list (self.documents or []), and is extended in place by the
\* call's documents and its nodes, and then, when register gets as far as
\* reading (read), by the reader's output (the reader of the model is a local
\* one).  What register then sends to the platform, and whether the platform
\* answers or raises, changes nothing here.
Registered(documents, nodes, read) ==
    IF Part(pipeline.documents) = << >> THEN pipeline.documents
    ELSE Some(Part(pipeline.documents) \o Part(documents) \o Part(nodes)
              \o (IF read THEN Part(pipeline.reader) ELSE << >>))

\* A blocking call: it runs while no invocation holds the thread.  It may raise
\* between extending the list and reading.
Register(documents, nodes) ==
    /\ turn = 0
    /\ \E read \in BOOLEAN :
          /\ Len(Part(Registered(documents, nodes, read))) <= MaxDocuments
          /\ pipeline' = [pipeline EXCEPT !.documents = Registered(documents, nodes, read)]
    /\ UNCHANGED <<cache, inv, turn, store, fp>>

\* IngestionPipeline.run_remote: merges its arguments into a list of its own
\* that it does not use, and calls self.register(verbose=False).
RunRemote(documents, nodes) ==
    /\ turn = 0
    /\ \E read \in BOOLEAN :
          /\ Len(Part(Registered(None, None, read))) <= MaxDocuments
          /\ pipeline' = [pipeline EXCEPT !.documents = Registered(None, None, read)]
    /\ UNCHANGED <<cache, inv, turn, store, fp>>

\* [n for n in nodes if n.embedding is not None]
HasEmbedding(n) == n.embedding # None
EmbeddedAll(nodes) == nodes
Embedded(nodes) == SelectSeq(nodes, HasEmbedding)

Added(i, nodes) == [by |-> i, nodes |-> nodes]

\* run: if self.vector_store is not None: self.vector_store.add(...); return nodes
Forward(i) ==
    LET s == inv[i]
    IN  /\ turn = i
        /\ s.via = "pipeline" /\ s.mode = "sync" /\ s.pc = "returned"
        /\ store' = IF pipeline.vector_store
                    THEN Append(store, Added(i, Embedded(s.nodes)))
                    ELSE store
        /\ inv' = [inv EXCEPT ![i].pc = "done", ![i].ret = Some(s.nodes)]
        /\ turn' = 0
        /\ UNCHANGED <<pipeline, cache, fp>>

\* arun: if self.vector_store is not None: await self.vector_store.async_add(...)
ForwardAsync(i) ==
    LET s == inv[i]
    IN  /\ turn = i
        /\ s.via = "pipeline" /\ s.mode = "async" /\ s.pc = "returned"
        /\ store' = IF pipeline.vector_store
                    THEN Append(store, Added(i, Embedded(s.nodes)))
                    ELSE store
        /\ inv' = [inv EXCEPT ![i].pc = IF pipeline.vector_store THEN "adding" ELSE "done",
                              ![i].ret = IF pipeline.vector_store THEN None
                                         ELSE Some(s.nodes)]
        /\ turn' = 0
        /\ UNCHANGED <<pipeline, cache, fp>>

\* arun: the awaited async_add resolves; return nodes
AddDone(i) ==
    /\ turn = 0
    /\ inv[i].pc = "adding"
    /\ inv' = [inv EXCEPT ![i].pc = "done", ![i].ret = Some(inv[i].nodes)]
    /\ UNCHANGED <<pipeline, cache, turn, store, fp>>

\* The calls of run and arun on a pipeline that register is not called on
\* (SpecMerge has the register and run_remote calls).
NextPipeline ==
    \/ \E i \in Invocations, mode \in Modes, documents \in {None, Some(ArgDocuments)},
          nodes \in {None, Some(ArgNodes)} :
          Run(i, mode, documents, nodes, None, ShowProgress)
    \/ \E i \in Invocations : Return(i)
    \/ \E i \in Invocations : Lookup(i)
    \/ \E i \in Invocations : Apply(i)
    \/ \E i \in Invocations : Await(i)
    \/ \E i \in Invocations : Resume(i)
    \/ \E i \in Invocations : Put(i)
    \/ \E i \in Invocations : Forward(i)
    \/ \E i \in Invocations : ForwardAsync(i)
    \/ \E i \in Invocations : AddDone(i)

SpecPipeline == InitPipeline /\ [][NextPipeline]_vars

\* ------------------------------------------- IngestionPipeline, longer sources

\* Pipelines and calls whose sources hold up to two records each, so that the
\* order inside a source shows in the merged batch.
TwoDocuments == << Node(5, <<"b">>, << >>, None), Node(1, <<"a">>, << >>, None) >>
TwoNodes == << Node(6, <<"c">>, << >>, Some(7)), Node(2, <<"b">>, << >>, None) >>
TwoOwnDocuments == << Node(7, <<"a">>, << >>, None), Node(3, <<"c">>, << >>, None) >>
MergeLists == { <<"Upper">> }

InitMerge ==
    /\ pipeline \in { Pipeline(ts, documents, reader, TRUE, disable_cache) :
                        ts \in MergeLists,
                        documents \in {None, Some(TwoOwnDocuments)},
                        reader \in {None, Some(ReaderOutput)},
                        disable_cache \in BOOLEAN }
    /\ cache = EmptyCache
    /\ inv = [i \in Invocations |-> Idle]
    /\ turn = 0
    /\ store = << >>
    /\ fp = NoFingerprints

NextMerge ==
    \/ \E i \in Invocations, mode \in Modes,
          documents \in {None, Some(TwoDocuments)},
          nodes \in {None, Some(ArgNodes), Some(TwoNodes)} :
          Run(i, mode, documents, nodes, None, ShowProgress)
    \/ \E documents \in {None, Some(ArgDocuments)}, nodes \in {None, Some(ArgNodes)} :
          Register(documents, nodes)
    \/ \E documents \in {None, Some(ArgDocuments)}, nodes \in {None, Some(ArgNodes)} :
          RunRemote(documents, nodes)
    \/ \E i \in Invocations : Return(i)
    \/ \E i \in Invocations : Lookup(i)
    \/ \E i \in Invocations : Apply(i)
    \/ \E i \in Invocations : Await(i)
    \/ \E i \in Invocations : Resume(i)
    \/ \E i \in Invocations : Put(i)
    \/ \E i \in Invocations : Forward(i)
    \/ \E i \in Invocations : ForwardAsync(i)
    \/ \E i \in Invocations : AddDone(i)

SpecMerge == InitMerge /\ [][NextMerge]_vars

\* ------------------------ SpecSwap: a list of two and the same list swapped

\* Callers of the two executors that pass the pipeline's two transformations in
\* the pipeline's order or swapped, on one cache.
SwapTransforms == {"Upper", "Suffix", "Embed"}
SwapLists == { ts \in SeqsUpTo(SwapTransforms, 2) : Len(ts) = 2 /\ ts[1] # ts[2] }

InitSwap ==
    /\ pipeline \in {Pipeline(ts, None, None, FALSE, FALSE) : ts \in SwapLists}
    /\ cache = EmptyCache
    /\ inv = [i \in Invocations |-> Idle]
    /\ turn = 0
    /\ store = << >>
    /\ fp = NoFingerprints

CallSwapped(i, mode, nodes, cacheOn, collection, kwargs) ==
    /\ cacheOn \/ collection = None
    /\ Enter(i, "direct", mode, None, None, nodes,
             <<pipeline.transformations[2], pipeline.transformations[1]>>,
             cacheOn, collection, kwargs)

NextSwap ==
    \/ \E i \in Invocations, mode \in Modes, nodes \in InputBatches,
          cacheOn \in BOOLEAN, kwargs \in Extras :
          Call(i, mode, nodes, cacheOn, None, kwargs)
    \/ \E i \in Invocations, mode \in Modes, nodes \in InputBatches,
          cacheOn \in BOOLEAN, kwargs \in Extras :
          CallSwapped(i, mode, nodes, cacheOn, None, kwargs)
    \/ Step

SpecSwap == InitSwap /\ [][NextSwap]_vars

\* --------------------------- SpecRace: racing arun_transformations invocations

\* The caches one earlier run of the executor can have left.
PrefilledCaches(transformations) ==
    {EmptyCache} \cup
    { run_transformations(nodes, transformations, TRUE, collection, kwargs,
                          EmptyCache).cache :
        nodes \in InputBatches, collection \in Collections, kwargs \in Extras }

InitRace ==
    /\ pipeline \in {Pipeline(ts, None, None, FALSE, FALSE) : ts \in TransformLists}
    /\ cache \in PrefilledCaches(pipeline.transformations)
    /\ inv = [i \in Invocations |-> Idle]
    /\ turn = 0
    /\ store = << >>
    /\ fp = NoFingerprints

\* Every invocation is arun_transformations with the shared cache and the
\* pipeline's list, and all get the same batch; each caller passes a collection
\* and extra options of its own.
RaceCall(i, nodes, collection, kwargs) ==
    /\ \A j \in Invocations : inv[j].pc # "idle" => inv[j].input = nodes
    /\ Enter(i, "direct", "async", None, None, nodes, pipeline.transformations,
             TRUE, collection, kwargs)

NextRace ==
    \/ \E i \in Invocations, nodes \in InputBatches, collection \in Collections,
          kwargs \in Extras : RaceCall(i, nodes, collection, kwargs)
    \/ \E i \in Invocations : Return(i)
    \/ \E i \in Invocations : Lookup(i)
    \/ \E i \in Invocations : Await(i)
    \/ \E i \in Invocations : Resume(i)
    \/ \E i \in Invocations : Put(i)

SpecRace == InitRace /\ [][NextRace]_vars

\* ------------------------------ SpecHash: get_transformation_hash on two pairs

\* Records whose texts concatenate alike in different ways, and one with metadata.
HashNodes == { Node(1, <<"a">>, << >>, None),
               Node(1, <<"a", "b">>, << >>, None),
               Node(1, <<"b", "a">>, << >>, None),
               Node(1, <<"a">>, << <<<<"k">>, <<"v">>>> >>, None) }
HashBatches == SeqsUpTo(HashNodes, MaxBatch)

InitHash ==
    /\ pipeline = Pipeline(<< >>, None, None, FALSE, FALSE)
    /\ cache = EmptyCache
    /\ inv = [i \in Invocations |-> Idle]
    /\ turn = 0
    /\ store = << >>
    /\ fp \in { [NoFingerprints EXCEPT !.nodes1 = nodes1, !.t1 = t1, !.nodes2 = nodes2,
                                       !.t2 = t2, !.state = "drawn"] :
                  nodes1 \in HashBatches, t1 \in Transforms,
                  nodes2 \in HashBatches, t2 \in Transforms }

\* The fingerprint of the first pair, computed twice, and that of the second.
Fingerprint ==
    /\ fp.state = "drawn"
    /\ fp' = [fp EXCEPT !.state = "hashed",
                        !.hash1 = get_transformation_hash(fp.nodes1, fp.t1),
                        !.hash1again = get_transformation_hash(fp.nodes1, fp.t1),
                        !.hash2 = get_transformation_hash(fp.nodes2, fp.t2)]
    /\ UNCHANGED <<pipeline, cache, inv, turn, store>>

NextHash == Fingerprint

SpecHash == InitHash /\ [][NextHash]_vars

\* ---------------------------------------- get_transformation_hash across reruns

\* Pairs of (batch, transformation) whose transformations include the
\* components with a callable in their configuration, as printed by two
\* process runs.
InitToken ==
    /\ pipeline = Pipeline(<< >>, None, None, FALSE, FALSE)
    /\ cache = EmptyCache
    /\ inv = [i \in Invocations |-> Idle]
    /\ turn = 0
    /\ store = << >>
    /\ fp \in { [NoFingerprints EXCEPT !.nodes1 = nodes1, !.t1 = t1, !.nodes2 = nodes2,
                                       !.t2 = t2, !.state = "drawn"] :
                  nodes1 \in HashBatches, t1 \in Transforms \cup Reruns,
                  nodes2 \in HashBatches, t2 \in Transforms \cup Reruns }

NextToken == Fingerprint

SpecToken == InitToken /\ [][NextToken]_vars

\* ---------------------------------------------------------- reading the logs

Ops(s, op) == {n \in 1..Len(s.log) : s.log[n].op = op}
Returned(s) == s.pc = "returned"

\* T_n(...T_1(batch)): the same call with cache=None.
Chain(s) ==
    run_transformations(s.input, s.transformations, FALSE, None, s.kwargs, EmptyCache)

\* The same call made by run_transformations from the cache the invocation
\* found when it was called.
Blocking(s) ==
    run_transformations(s.input, s.transformations, s.cacheOn, s.collection,
                        s.kwargs, s.cache0)

\* ------------------------------------------------------------------ claims

\* C1. Cache idempotence: two calls of run_transformations, one after the
\* other, with the same cache, collection, batch and transformation list return
\* equal batches, and the second call applies no transformation.
CacheIdempotence ==
    \A i, j \in Invocations :
        ( /\ i < j
          /\ Returned(inv[i]) /\ Returned(inv[j])
          /\ inv[i].mode = "sync" /\ inv[j].mode = "sync"
          /\ inv[i].cacheOn /\ inv[j].cacheOn
          /\ inv[i].collection = inv[j].collection
          /\ inv[i].input = inv[j].input
          /\ inv[i].transformations = inv[j].transformations )
        => /\ inv[j].nodes = inv[i].nodes
           /\ Ops(inv[j], "apply") = {}
           /\ Cardinality(Ops(inv[j], "hit")) = Len(inv[j].transformations)

\* Two such calls, the first of which applied two transformations.
CacheIdempotenceWitness ==
    /\ Returned(inv[1]) /\ Returned(inv[2])
    /\ inv[1].mode = "sync" /\ inv[2].mode = "sync"
    /\ inv[1].cacheOn /\ inv[2].cacheOn
    /\ inv[1].collection = inv[2].collection
    /\ inv[1].input = inv[2].input
    /\ inv[1].kwargs # inv[2].kwargs
    /\ Cardinality(Ops(inv[1], "apply")) = 2
    /\ Ops(inv[2], "apply") = {}

\* C2. Cache transparency: a call with a cache that earlier executor runs
\* filled returns the batch the same call returns with cache=None.
CacheTransparency ==
    \A i \in Invocations :
        (Returned(inv[i]) /\ inv[i].cacheOn)
        => (~Chain(inv[i]).raised /\ inv[i].nodes = Chain(inv[i]).nodes)

\* C3. Cache failure tolerance: no invocation ends by raising CacheUnavailable
\* to its caller.
CacheFailureTolerated ==
    \A i \in Invocations : ~(inv[i].pc = "raised" /\ inv[i].err = "CacheUnavailable")

\* C4. Transformation failure: an application that raises ends the invocation
\* with that error; nothing follows it in the log (no retry, no later
\* transformation, no put for that step or a later one), no step is applied
\* twice, and every cache entry was put by a step whose application returned
\* the batch stored.
RaisedAt(s, n) ==
    /\ s.log[n].op = "apply"
    /\ call(s.transformations[s.log[n].step], s.log[n].nodes, s.kwargs).raised
    /\ ~(s.pc = "awaiting" /\ n = Len(s.log))

TransformationFailure ==
    /\ \A i \in Invocations :
          LET s == inv[i]
          IN  /\ \A n \in 1..Len(s.log) :
                    RaisedAt(s, n)
                    => /\ s.pc = "raised" /\ s.err = "TransformError"
                       /\ n = Len(s.log)
                       /\ s.step = s.log[n].step
              /\ \A n, m \in Ops(s, "apply") : s.log[n].step = s.log[m].step => n = m
              /\ (s.pc = "raised" /\ s.err = "TransformError")
                 => /\ Len(s.log) > 0 /\ RaisedAt(s, Len(s.log))
                    /\ \A n \in Ops(s, "put") : s.log[n].step < s.step
    /\ \A k \in DOMAIN cache :
          \E i \in Invocations : \E n \in Ops(inv[i], "put") :
              /\ k = <<CollectionOf(inv[i].collection), inv[i].log[n].key>>
              /\ cache[k] = inv[i].log[n].nodes
              /\ n > 1
              /\ inv[i].log[n - 1] = [inv[i].log[n] EXCEPT !.op = "ret"]

\* The second transformation raised after the first step had been cached.
TransformationFailureWitness ==
    \E i \in Invocations :
        /\ inv[i].pc = "raised" /\ inv[i].err = "TransformError"
        /\ inv[i].step = 2
        /\ inv[i].mode = "async"
        /\ Ops(inv[i], "put") # {}
        /\ DOMAIN cache # {}

\* C5. Strict stage ordering: an invocation goes through the steps in list
\* order, applies each transformation at most once, starts every step from the
\* batch the step before it ended with, and returns the batch of the last step;
\* and of two calls with the same batch and options, one with a list of two
\* transformations and one with the same list swapped, that do not commute on
\* the batch, the one returns another batch than the other.
StageOrderOf(s) ==
    /\ \A n \in 1..Len(s.log) :
          /\ s.log[n].step \in 1..Len(s.transformations)
          /\ s.log[n].step <= s.step
          /\ n < Len(s.log) => s.log[n].step <= s.log[n + 1].step
    /\ \A n, m \in Ops(s, "apply") : s.log[n].step = s.log[m].step => n = m
    /\ \A n \in Ops(s, "get") \cup Ops(s, "apply") :
          IF s.log[n].step = 1 THEN s.log[n].nodes = s.input
          ELSE \E m \in 1..(n - 1) :
                  /\ s.log[m].step = s.log[n].step - 1
                  /\ s.log[m].op \in {"hit", "ret"}
                  /\ s.log[m].nodes = s.log[n].nodes
    /\ \A n \in Ops(s, "ret") :
          /\ n > 1
          /\ s.log[n - 1].op = "apply"
          /\ s.log[n - 1].step = s.log[n].step
          /\ s.log[n].nodes = call(s.transformations[s.log[n].step],
                                   s.log[n - 1].nodes, s.kwargs).nodes
    /\ s.pc = "awaiting"
       => s.log[Len(s.log)].op = "apply" /\ s.log[Len(s.log)].step = s.step
    /\ Returned(s)
       => /\ s.step = Len(s.transformations) + 1
          /\ \A k \in 1..Len(s.transformations) :
                \E n \in Ops(s, "hit") \cup Ops(s, "ret") : s.log[n].step = k
          /\ IF s.transformations = << >> THEN s.nodes = s.input
             ELSE \E n \in Ops(s, "hit") \cup Ops(s, "ret") :
                     /\ s.log[n].step = Len(s.transformations)
                     /\ s.log[n].nodes = s.nodes

SwapOf(s1, s2) ==
    /\ Len(s1.transformations) = 2
    /\ s1.transformations[1] # s1.transformations[2]
    /\ s2.transformations = <<s1.transformations[2], s1.transformations[1]>>
    /\ s1.input = s2.input /\ s1.kwargs = s2.kwargs
    /\ s1.cacheOn = s2.cacheOn /\ s1.collection = s2.collection

NonCommutative(s1, s2) ==
    /\ ~Chain(s1).raised /\ ~Chain(s2).raised
    /\ Chain(s1).nodes # Chain(s2).nodes

SwapChangesBatch ==
    \A i \in Invocations, j \in Invocations :
        ( /\ Returned(inv[i]) /\ Returned(inv[j])
          /\ SwapOf(inv[i], inv[j])
          /\ NonCommutative(inv[i], inv[j]) )
        => inv[i].nodes # inv[j].nodes

StrictStageOrdering ==
    /\ \A i \in Invocations : StageOrderOf(inv[i])
    /\ SwapChangesBatch

\* C6. Concurrent-run equivalence: an arun_transformations invocation that ran
\* with no other invocation in progress ends as run_transformations ends for the
\* same batch, list, options and initial cache: the same batch returned (or a
\* transformation raising in both), and the same cache entries left.
ConcurrentRunEquivalence ==
    \A i \in Invocations :
        LET s == inv[i]
        IN  ( /\ s.mode = "async"
              /\ s.alone
              /\ Returned(s) \/ (s.pc = "raised" /\ s.err = "TransformError") )
            => /\ Blocking(s).raised = (s.pc = "raised")
               /\ Blocking(s).nodes = s.nodes
               /\ Blocking(s).cache = s.cacheEnd

\* A lone arun_transformations call on a cache an earlier run filled, with one
\* step a hit and one step applied and put.
ConcurrentRunEquivalenceWitness ==
    /\ Returned(inv[2])
    /\ inv[2].mode = "async" /\ inv[2].alone
    /\ inv[2].cache0 # EmptyCache
    /\ Ops(inv[2], "hit") # {}
    /\ Ops(inv[2], "put") # {}
    /\ inv[2].cacheEnd # inv[2].cache0

\* C7. Cache bypass: an invocation with cache=None issues no cache get or put,
\* and when it returns it has applied every transformation of the list exactly
\* once, in order.
CacheBypass ==
    \A i \in Invocations :
        LET s == inv[i]
        IN  ~s.cacheOn
            => /\ \A n \in 1..Len(s.log) : s.log[n].op \in {"apply", "ret"}
               /\ Returned(s)
                  => /\ Cardinality(Ops(s, "apply")) = Len(s.transformations)
                     /\ \A k \in 1..Len(s.transformations) :
                           /\ s.log[2 * k - 1].op = "apply"
                           /\ s.log[2 * k - 1].step = k
                           /\ s.log[2 * k].op = "ret"
               /\ (Returned(s) /\ s.alone) => s.cacheEnd = s.cache0

\* A run with the cache, then a run by the other executor with cache=None on
\* the same input: the cache holds the entries of these very steps, and the
\* second run still applied both transformations.
CacheBypassWitness ==
    /\ Returned(inv[1]) /\ Returned(inv[2])
    /\ inv[1].cacheOn /\ ~inv[2].cacheOn
    /\ inv[1].input = inv[2].input /\ inv[1].kwargs = inv[2].kwargs
    /\ inv[1].mode = "sync" /\ inv[2].mode = "async"
    /\ Cardinality(Ops(inv[1], "put")) = 2
    /\ Cardinality(Ops(inv[2], "apply")) = 2
    /\ inv[2].cacheEnd = inv[2].cache0 /\ inv[2].cache0 # EmptyCache

\* C8. Racing invocations: arun_transformations invocations with the same batch
\* and the same list that interleave on one cache (each began before the other
\* ended) each return what the call
\* returns when run alone from the cache they started on (and raise only where
\* it raises), and once all have ended, the cache holds under every
\* fingerprint that was written the batch each writer computed for it.
Alone(s) ==
    run_transformations(s.input, s.transformations, TRUE, s.collection, s.kwargs,
                        inv[1].cache0)

RacingInvocations ==
    (\A j \in Invocations : ~inv[j].alone)
    => \A i \in Invocations :
        LET s == inv[i]
        IN  /\ Returned(s) => (~Alone(s).raised /\ s.nodes = Alone(s).nodes)
            /\ (s.pc = "raised" /\ s.err = "TransformError") => Alone(s).raised
            /\ (\A j \in Invocations : inv[j].pc \in {"returned", "raised"})
               => \A n \in Ops(s, "put") :
                     CacheGet(cache, s.log[n].key, s.collection) = Some(s.log[n].nodes)

\* C9. Sink filtering: a pipeline run that got its final batch calls the vector
\* store's add (async_add) exactly once when a store is configured, with the
\* records of the final batch that carry an embedding, in batch order, and not
\* at all otherwise; the caller gets the whole final batch.
RECURSIVE WithVector(_)
WithVector(nodes) ==
    IF nodes = << >> THEN << >>
    ELSE IF Head(nodes).embedding = None THEN WithVector(Tail(nodes))
    ELSE <<Head(nodes)>> \o WithVector(Tail(nodes))

AddsOf(i) == {n \in 1..Len(store) : store[n].by = i}

SinkFiltering ==
    \A i \in Invocations :
        LET s == inv[i]
        IN  s.via = "pipeline"
            => /\ s.pc \in {"adding", "done"}
                  => IF pipeline.vector_store
                     THEN /\ Cardinality(AddsOf(i)) = 1
                          /\ \A n \in AddsOf(i) : store[n].nodes = WithVector(s.nodes)
                     ELSE AddsOf(i) = {}
               /\ s.pc \notin {"adding", "done"} => AddsOf(i) = {}
               /\ s.pc = "done" => s.ret = Some(s.nodes)
               /\ s.pc # "done" => s.ret = None

\* A run and an arun whose final batch held records with and without an
\* embedding: each forwarded fewer records than it returned.
SinkFilteringWitness ==
    /\ inv[1].pc = "done" /\ inv[2].pc = "done"
    /\ inv[1].mode = "sync" /\ inv[2].mode = "async"
    /\ Len(store) = 2
    /\ \A n \in 1..2 :
          /\ store[n].nodes # << >>
          /\ Len(store[n].nodes) < Len(inv[store[n].by].ret[1])
    /\ Len(inv[2].ret[1]) = 4

\* C10. Fingerprint determinism and sensitivity: the fingerprint of a pair is
\* the same each time it is computed, and two pairs whose batches differ in the
\* content of some record, or whose transformations differ in a configuration
\* value, have different hash inputs (and so different fingerprints).
ContentDiffers(nodes1, nodes2) ==
    \/ Len(nodes1) # Len(nodes2)
    \/ \E k \in 1..Len(nodes1) : get_content(nodes1[k]) # get_content(nodes2[k])

ConfigDiffers(t1, t2) == to_dict(t1) # to_dict(t2)

FingerprintSensitivity ==
    fp.state = "hashed"
    => /\ fp.hash1 = fp.hash1again
       /\ (ContentDiffers(fp.nodes1, fp.nodes2) \/ ConfigDiffers(fp.t1, fp.t2))
          => /\ HashInput(fp.nodes1, fp.t1) # HashInput(fp.nodes2, fp.t2)
             /\ fp.hash1 # fp.hash2

\* C11. Non-deterministic-token stripping: two transformations whose
\* configurations differ only in the address of an embedded runtime-object
\* reference get the same fingerprint on the same batch, and what is hashed of
\* a configuration is its string with reference tokens deleted and every other
\* character as it was.
Descriptions == {<<"f">>, LambdaName}
Addresses == {<<"1">>, <<"2">>}

IsReference(item) ==
    /\ ~item.isStr
    /\ \E d \in Descriptions, a \in Addresses : item.val = Reference(d, a)

SameButAddress(item1, item2) ==
    /\ item1.key = item2.key
    /\ IsReference(item1) /\ IsReference(item2)
    /\ \E d \in Descriptions, a1 \in Addresses, a2 \in Addresses :
          item1.val = Reference(d, a1) /\ item2.val = Reference(d, a2)

DiffersOnlyInToken(t1, t2) ==
    /\ Len(to_dict(t1)) = Len(to_dict(t2))
    /\ \A k \in 1..Len(to_dict(t1)) :
          to_dict(t1)[k] = to_dict(t2)[k] \/ SameButAddress(to_dict(t1)[k], to_dict(t2)[k])
    /\ \E k \in 1..Len(to_dict(t1)) : IsReference(to_dict(t1)[k])

\* The configuration with the references at the positions in gone deleted.
Without(d, gone) ==
    [k \in 1..Len(d) |-> IF k \in gone THEN [d[k] EXCEPT !.val = << >>] ELSE d[k]]

OutsideTokensUnchanged(nodes, t, hash) ==
    \E gone \in SUBSET {k \in 1..Len(to_dict(t)) : IsReference(to_dict(t)[k])} :
        hash = sha256(NodesStr(nodes) \o DictStr(Without(to_dict(t), gone)))

TokenStripping ==
    fp.state = "hashed"
    => /\ OutsideTokensUnchanged(fp.nodes1, fp.t1, fp.hash1)
       /\ OutsideTokensUnchanged(fp.nodes2, fp.t2, fp.hash2)
       /\ (fp.nodes1 = fp.nodes2 /\ DiffersOnlyInToken(fp.t1, fp.t2))
          => fp.hash1 = fp.hash2

\* C12. Source merge order: the batch a pipeline run hands to the executor is
\* the documents of the call, then the nodes of the call, then the pipeline's
\* own documents as they are when the run is called, then the reader's output,
\* each only when supplied and in its own order; the first lookup or
\* application already works on that whole batch; and no step of a run changes
\* the pipeline, the batch merged or the lists the caller passed.
SourcesInOrder(s) ==
    (IF s.documents = None THEN << >> ELSE s.documents[1])
    \o (IF s.argNodes = None THEN << >> ELSE s.argNodes[1])
    \o (IF pipeline.documents = None THEN << >> ELSE pipeline.documents[1])
    \o (IF pipeline.reader = None THEN << >> ELSE pipeline.reader[1])

MergedFirst ==
    \A i \in Invocations :
        LET s == inv[i]
        IN  (s.via = "pipeline" /\ s.pc # "idle")
            => /\ s.log = << >> /\ s.pc = "loop" /\ s.step = 1 => s.nodes = s.input
               /\ s.log # << >>
                  => /\ s.log[1].op \in {"get", "apply"}
                     /\ s.log[1].step = 1
                     /\ s.log[1].nodes = s.input

\* The step that calls run or arun merges the sources as they are then; every
\* step of an invocation (a step that changes inv) keeps the pipeline, and
\* keeps the arguments and the merged batch of the invocations under way.
ListsKept ==
    /\ \A i \in Invocations :
          (inv[i].pc = "idle" /\ inv'[i].pc # "idle" /\ inv'[i].via = "pipeline")
          => inv'[i].input = SourcesInOrder(inv'[i])
    /\ inv' # inv => pipeline' = pipeline
    /\ \A i \in Invocations :
          inv[i].pc # "idle"
          => /\ inv'[i].documents = inv[i].documents
             /\ inv'[i].argNodes = inv[i].argNodes
             /\ inv'[i].input = inv[i].input

SourceMergeOrder == [](MergedFirst) /\ [][ListsKept]_vars

\* A run and an arun of a pipeline with own documents and a reader, each called
\* with two documents and two nodes, finished: seven records in the first
\* batch, and eight in the second, merged after a register call had extended
\* the pipeline's documents.
SourceMergeOrderWitness ==
    /\ pipeline.documents = Some(TwoOwnDocuments \o ReaderOutput)
    /\ pipeline.reader # None
    /\ \A i \in Invocations :
          /\ inv[i].pc = "done"
          /\ inv[i].documents = Some(TwoDocuments)
          /\ inv[i].argNodes = Some(TwoNodes)
          /\ Len(inv[i].ret[1]) = Len(inv[i].input)
    /\ Len(inv[1].input) = 7 /\ Len(inv[2].input) = 8
    /\ inv[2].input = TwoDocuments \o TwoNodes \o TwoOwnDocuments \o ReaderOutput
                      \o ReaderOutput
    /\ inv[1].mode = "sync" /\ inv[2].mode = "async"
    /\ Cardinality(Ops(inv[1], "get")) > 0

\* C13. Per-step cache protocol: with a cache, every step issues one get under
\* the fingerprint of the batch as it stands before the step, in the caller's
\* collection; on a hit nothing is applied or put and the cached batch becomes
\* the current batch; on a miss the transformation is applied once and one put
\* then stores what it returned under the fingerprint of the get, in the same
\* collection; nothing else changes the cache.
StepOps(s, k) ==
    LET AtStep(e) == e.step = k
        events == SelectSeq(s.log, AtStep)
    IN  [n \in 1..Len(events) |-> events[n].op]

IsPrefix(p, q) == Len(p) <= Len(q) /\ p = SubSeq(q, 1, Len(p))

HitOps == <<"get", "hit">>
MissOps == <<"get", "apply", "ret", "put">>

ProtocolLog(s) ==
    s.cacheOn
    => /\ \A k \in 1..Len(s.transformations) :
             /\ \/ IsPrefix(StepOps(s, k), HitOps)
                \/ IsPrefix(StepOps(s, k), MissOps)
                \/ s.pc = "raised" /\ s.step = k
                   /\ StepOps(s, k) = <<"get", "apply", "ret", "putraise">>
             /\ k < s.step => StepOps(s, k) \in {HitOps, MissOps}
             /\ k > s.step => StepOps(s, k) = << >>
       /\ \A n \in Ops(s, "get") :
             s.log[n].key = get_transformation_hash(s.log[n].nodes,
                                                    s.transformations[s.log[n].step])
       /\ \A n \in Ops(s, "hit") \cup Ops(s, "apply") :
             /\ s.log[n - 1].op = "get"
             /\ s.log[n - 1].key = s.log[n].key
             /\ s.log[n].op = "apply" => s.log[n - 1].nodes = s.log[n].nodes
       /\ \A n \in Ops(s, "put") :
             /\ s.log[n - 1].op = "ret" /\ s.log[n - 1].nodes = s.log[n].nodes
             /\ s.log[n - 3].op = "get" /\ s.log[n - 3].key = s.log[n].key
       /\ (s.pc = "loop" /\ s.log # << >> /\ s.log[Len(s.log)].op \in {"hit", "put"})
          => s.nodes = s.log[Len(s.log)].nodes

EntryOf(s, key) == <<CollectionOf(s.collection), key>>

\* What one step of invocation i may do to the cache and must find in it.
ProtocolStepOf(i) ==
    LET s == inv[i]
        n == Len(s.log) + 1
        e == inv'[i].log[n]
    IN  (s.pc # "idle" /\ Len(inv'[i].log) >= n)
        => /\ e.op = "get"
              => /\ e.nodes = s.nodes
                 /\ cache' = cache
                 /\ IF Len(inv'[i].log) > n
                    THEN /\ inv'[i].log[n + 1].op = "hit"
                         /\ EntryOf(s, e.key) \in DOMAIN cache
                         /\ inv'[i].log[n + 1].nodes = cache[EntryOf(s, e.key)]
                         /\ inv'[i].nodes = cache[EntryOf(s, e.key)]
                         /\ inv'[i].step = s.step + 1
                    ELSE inv'[i].pc = "apply" => EntryOf(s, e.key) \notin DOMAIN cache
           /\ e.op = "put"
              => /\ DOMAIN cache' = DOMAIN cache \cup {EntryOf(s, e.key)}
                 /\ cache'[EntryOf(s, e.key)] = e.nodes
                 /\ \A k \in DOMAIN cache : k # EntryOf(s, e.key) => cache'[k] = cache[k]
           /\ e.op \notin {"get", "put"} => cache' = cache

ProtocolStep ==
    /\ \A i \in Invocations : ProtocolStepOf(i)
    /\ cache' # cache
       => \E i \in Invocations :
             /\ Len(inv'[i].log) = Len(inv[i].log) + 1
             /\ inv'[i].log[Len(inv'[i].log)].op = "put"

PerStepCacheProtocol ==
    [](\A i \in Invocations : ProtocolLog(inv[i])) /\ [][ProtocolStep]_vars

\* An arun_transformations call in a collection of its own that hit at the
\* first step and missed at the second: the second fingerprint was computed
\* from the cached batch, the transformation applied and its output put.
PerStepCacheProtocolWitness ==
    LET s == inv[2]
    IN  /\ Returned(s) /\ s.mode = "async" /\ s.cacheOn
        /\ s.collection # None
        /\ StepOps(s, 1) = HitOps /\ StepOps(s, 2) = MissOps
        /\ s.log[2].nodes # s.input
        /\ s.log[3].key = get_transformation_hash(s.log[2].nodes, s.transformations[2])
        /\ EntryOf(s, s.log[6].key) \in DOMAIN cache
        /\ cache[EntryOf(s, s.log[6].key)] = s.nodes

====
